---------------------------- MODULE Spec2Model ----------------------------
(***************************************************************************)
(* Model of the 3D Print Scale Converter (src/src/App.jsx and the earlier  *)
(* single-page build, src/unnamed/part_000).                               *)
(*                                                                         *)
(* JavaScript numbers are modelled as exact rationals plus the non-finite  *)
(* values NaN, Infinity and -Infinity; strings are sequences of one        *)
(* character strings.                                                      *)
(***************************************************************************)
EXTENDS Integers, Sequences, FiniteSets

VARIABLES
    \* harnesses of the pure functions
    fracIn,        \* arguments of a call of inchesToFraction: [inches, denom]
    fracOut,       \* its return value, or NoFraction before the call returns
    shown,         \* what one render of the measurement converter displays
    percentShown,  \* what one render of the scale-to-scale converter displays
    \* useState of MeasurementConverter (App.jsx) / ScaleConverter (part_000)
    system, metricUnit, imperialUnit, inputValue, scaleN, inchDenom, decimals,
    \* useState of ScaleToScaleConverter
    fromScale, toScale,
    \* useState of App
    tab,
    \* the toast element, the pending setTimeout callbacks (ms left of each) and the
    \* clipboard writes not yet settled (how many per copy target)
    toastEl, timers, pending,
    \* history: the targets a clipboard write has failed for, and for how many ms
    \* the message of the toast has been on display (counted up to TOAST_MS)
    failed, shownFor,
    \* the environment
    build,         \* the root component mounted: "App" or "ScaleConverter"
    hasClipboard,  \* whether navigator.clipboard exists (a secure context)
    fpAbove,       \* whether the double nearest to a value that binary cannot
                   \* represent exactly lies above that value
    \* useState of App / ScaleConverter: theme; what localStorage holds under the
    \* key "theme"; whether the root element has the class "dark"
    theme, storage, rootDark,
    \* history: what the initializer of theme read at the mount, and what it chose
    startup,
    \* the environment: what window.matchMedia reports of prefers-color-scheme
    colorScheme

harnessVars == <<fracIn, fracOut, shown, percentShown>>
measureVars == <<system, metricUnit, imperialUnit, inputValue, scaleN, inchDenom, decimals>>
scaleVars == <<fromScale, toScale>>
toastVars == <<toastEl, timers, shownFor>>
clipboardVars == <<pending, failed>>
envVars == <<build, hasClipboard, fpAbove>>
themeVars == <<theme, storage, rootDark, startup, colorScheme>>
vars == <<fracIn, fracOut, shown, percentShown, system, metricUnit, imperialUnit,
          inputValue, scaleN, inchDenom, decimals, fromScale, toScale, tab, toastEl,
          timers, pending, failed, shownFor, build, hasClipboard, fpAbove, theme,
          storage, rootDark, startup, colorScheme>>

---------------------------------------------------------------------------
(* Bounds of the model.                                                    *)

\* inch inputs of the fraction harness are multiples of 1 / 2^GridBits
GridBits == 7
\* ... with an absolute value below MaxWhole + 1
MaxWhole == 2
\* the longest text typed into the value field (the sample texts apart)
MaxLen == 2
\* the steps the clock takes in TOAST_MS
TicksPerToast == 3
\* the most clipboard writes of one copy target in flight at a time
MaxPending == 1

---------------------------------------------------------------------------
(* JavaScript numbers.                                                     *)

RECURSIVE Pow(_, _)
Pow(b, e) == IF e = 0 THEN 1 ELSE b * Pow(b, e - 1)

RECURSIVE Gcd(_, _)
Gcd(a, b) == IF b = 0 THEN a ELSE Gcd(b, a % b)

AbsInt(i) == IF i < 0 THEN -i ELSE i

\* a finite number n/d in lowest terms with d > 0
Fin(n, d) ==
    LET c == Gcd(AbsInt(n), AbsInt(d))
        s == IF d < 0 THEN -1 ELSE 1
    IN  [k |-> "fin", n |-> s * (n \div c), d |-> s * (d \div c)]

NaN == [k |-> "nan", n |-> 0, d |-> 1]
PosInfinity == [k |-> "inf", n |-> 0, d |-> 1]
NegInfinity == [k |-> "ninf", n |-> 0, d |-> 1]
Zero == Fin(0, 1)

NumberIsFinite(x) == x.k = "fin"

Neg(x) ==
    CASE x.k = "fin" -> Fin(-x.n, x.d)
      [] x.k = "inf" -> NegInfinity
      [] x.k = "ninf" -> PosInfinity
      [] OTHER -> NaN

\* x / y, IEEE 754 on exact values: a zero divisor gives NaN or an infinity
Div(x, y) ==
    CASE x.k = "nan" \/ y.k = "nan" -> NaN
      [] x.k = "fin" /\ y.k = "fin" ->
            IF y.n # 0 THEN Fin(x.n * y.d, x.d * y.n)
            ELSE IF x.n = 0 THEN NaN
            ELSE IF x.n > 0 THEN PosInfinity ELSE NegInfinity
      [] x.k = "fin" -> Zero
      [] y.k = "fin" -> IF (x.k = "inf") = (y.n >= 0) THEN PosInfinity ELSE NegInfinity
      [] OTHER -> NaN

\* x * y
Mul(x, y) ==
    CASE x.k = "nan" \/ y.k = "nan" -> NaN
      [] x.k = "fin" /\ y.k = "fin" -> Fin(x.n * y.n, x.d * y.d)
      [] (x.k = "fin" /\ x.n = 0) \/ (y.k = "fin" /\ y.n = 0) -> NaN
      [] OTHER ->
            LET xneg == x.k = "ninf" \/ (x.k = "fin" /\ x.n < 0)
                yneg == y.k = "ninf" \/ (y.k = "fin" /\ y.n < 0)
            IN  IF xneg = yneg THEN PosInfinity ELSE NegInfinity

\* Math.floor of a finite number, as an integer
MathFloor(x) == x.n \div x.d

\* Math.round of a finite number: the nearest integer, a tie going up;
\* a mutant truncates
MathRound_truncates(x) == x.n \div x.d

MathRound(x) == (2 * x.n + x.d) \div (2 * x.d)

---------------------------------------------------------------------------
(* inchesToFraction, App.jsx lines 8-19 (the same text in part_000 9-20).  *)

NoFraction == [sign |-> "", whole |-> -1, num |-> -1, denom |-> -1]

\* the local g of inchesToFraction: Euclid's algorithm; a mutant returns b at the end
RECURSIVE g_returnsB(_, _)
g_returnsB(a, b) == IF b # 0 THEN g_returnsB(b, a % b) ELSE b

RECURSIVE g(_, _)
g(a, b) == IF b # 0 THEN g(b, a % b) ELSE a

inchesToFraction(inches, denom) ==
    IF ~NumberIsFinite(inches)
    THEN [sign |-> "", whole |-> 0, num |-> 0, denom |-> denom]
    ELSE LET sign == IF inches.n < 0 THEN "-" ELSE ""
             abs == Fin(AbsInt(inches.n), inches.d)
             whole == MathFloor(abs)
             frac == Fin(abs.n - whole * abs.d, abs.d)
             num == MathRound(Mul(frac, Fin(denom, 1)))
         IN  IF num = denom
             THEN [sign |-> sign, whole |-> whole + 1, num |-> 0, denom |-> denom]
             ELSE LET gg == IF g(num, denom) # 0 THEN g(num, denom) ELSE 1
                  IN  [sign |-> sign, whole |-> whole,
                       num |-> num \div gg, denom |-> denom \div gg]

\* the options of the "Fractional Inches (1/x)" select
Denominators == {2, 4, 8, 16, 32, 64}

---------------------------------------------------------------------------
(* Strings and the conversions between strings and numbers.                *)

DigitChars == <<"0", "1", "2", "3", "4", "5", "6", "7", "8", "9">>
DigitSet == {"0", "1", "2", "3", "4", "5", "6", "7", "8", "9"}
IsDigit(c) == c \in DigitSet
DigitValue(c) ==
    CASE c = "0" -> 0 [] c = "1" -> 1 [] c = "2" -> 2 [] c = "3" -> 3 [] c = "4" -> 4
      [] c = "5" -> 5 [] c = "6" -> 6 [] c = "7" -> 7 [] c = "8" -> 8 [] c = "9" -> 9
AllDigits(s) == \A i \in 1 .. Len(s) : IsDigit(s[i])

RECURSIVE DigitsValue(_)
DigitsValue(s) ==
    IF s = <<>> THEN 0
    ELSE DigitsValue(SubSeq(s, 1, Len(s) - 1)) * 10 + DigitValue(s[Len(s)])

\* String(i) of a non-negative integer
RECURSIVE ToString(_)
ToString(i) ==
    IF i < 10 THEN <<DigitChars[i + 1]>>
    ELSE ToString(i \div 10) \o <<DigitChars[(i % 10) + 1]>>

InfinityText == <<"I", "n", "f", "i", "n", "i", "t", "y">>

\* StrUnsignedDecimalLiteral: digits, digits.digits, digits. or .digits
\* (the texts of the model hold no exponent and no radix prefix)
StrUnsignedDecimalLiteral(s) ==
    LET dots == {i \in 1 .. Len(s) : s[i] = "."}
    IN  IF dots = {}
        THEN IF s # <<>> /\ AllDigits(s) THEN Fin(DigitsValue(s), 1) ELSE NaN
        ELSE IF Cardinality(dots) > 1 THEN NaN
        ELSE LET p == CHOOSE i \in dots : TRUE
                 ip == SubSeq(s, 1, p - 1)
                 fp == SubSeq(s, p + 1, Len(s))
             IN  IF AllDigits(ip) /\ AllDigits(fp) /\ Len(ip) + Len(fp) > 0
                 THEN Fin(DigitsValue(ip) * Pow(10, Len(fp)) + DigitsValue(fp),
                          Pow(10, Len(fp)))
                 ELSE NaN

StrUnsigned(s) == IF s = InfinityText THEN PosInfinity ELSE StrUnsignedDecimalLiteral(s)

\* a mutant of Number reads the longest numeric prefix, as parseFloat does
Number_parsesPrefix(s) ==
    LET body == IF s # <<>> /\ Head(s) \in {"-", "+"} THEN Tail(s) ELSE s
        lens == {k \in 0 .. Len(body) : NumberIsFinite(StrUnsigned(SubSeq(body, 1, k)))}
        best == CHOOSE k \in lens : \A j \in lens : j <= k
        val == IF body = InfinityText THEN PosInfinity
               ELSE IF lens = {} THEN NaN
               ELSE StrUnsigned(SubSeq(body, 1, best))
    IN  IF s = <<>> THEN Zero
        ELSE IF Head(s) = "-" THEN Neg(val)
        ELSE val

\* Number(text): the empty text is 0, a text that is no numeric literal is NaN
\* (the texts of the model hold no white space)
Number(s) ==
    IF s = <<>> THEN Zero
    ELSE IF Head(s) = "-" THEN Neg(StrUnsigned(Tail(s)))
    ELSE IF Head(s) = "+" THEN StrUnsigned(Tail(s))
    ELSE StrUnsigned(s)

\* text.replace(/,/g, "")
StripCommas(s) == SelectSeq(s, LAMBDA c : c # ",")

\* a denominator that is a power of two: the value is a double as it stands
RECURSIVE IsPowerOfTwo(_)
IsPowerOfTwo(d) == d = 1 \/ (d % 2 = 0 /\ IsPowerOfTwo(d \div 2))

\* k decimal digits of r/d (0 <= r < d) by long division, and what is left
RECURSIVE LongDivision(_, _, _, _)
LongDivision(r, d, k, digits) ==
    IF k = 0 THEN [digits |-> digits, rest |-> r]
    ELSE LongDivision((r * 10) % d, d, k - 1, Append(digits, (r * 10) \div d))

\* a digit sequence plus one: [digits, carry]
RECURSIVE PlusOne(_)
PlusOne(ds) ==
    IF ds = <<>> THEN [digits |-> <<>>, carry |-> 1]
    ELSE LET last == ds[Len(ds)]
             front == SubSeq(ds, 1, Len(ds) - 1)
         IN  IF last < 9 THEN [digits |-> front \o <<last + 1>>, carry |-> 0]
             ELSE LET more == PlusOne(front)
                  IN  [digits |-> more.digits \o <<0>>, carry |-> more.carry]

DigitText(ds) == [i \in 1 .. Len(ds) |-> DigitChars[ds[i] + 1]]

\* ToIntegerOrInfinity of a fractionDigits argument
ToInteger(x) == IF x.k = "fin" THEN (IF x.n >= 0 THEN x.n \div x.d ELSE -((-x.n) \div x.d)) ELSE 0

\* whether the digits after the f-th are rounded up: "let n be an integer for
\* which n / 10^f - x is as close to zero as possible; if there are two such n,
\* pick the larger n", where x is the double: on a decimal tie that binary cannot
\* represent the double lies on one side.
RoundsUp(rest, d) ==
    \/ 2 * rest > d
    \/ 2 * rest = d /\ (IsPowerOfTwo(d) \/ fpAbove)

\* the digits of a finite x >= 0 to f decimals: [ip, digits]
FixedDigits(x, f) ==
    LET ld == LongDivision(x.n % x.d, x.d, f, <<>>)
    IN  IF RoundsUp(ld.rest, x.d)
        THEN LET more == PlusOne(ld.digits)
             IN  [ip |-> (x.n \div x.d) + more.carry, digits |-> more.digits]
        ELSE [ip |-> x.n \div x.d, digits |-> ld.digits]

\* Number.prototype.toFixed(fractionDigits) of x
toFixed(x, fractionDigits) ==
    CASE x.k = "nan" -> <<"N", "a", "N">>
      [] x.k = "inf" -> InfinityText
      [] x.k = "ninf" -> <<"-">> \o InfinityText
      [] OTHER ->
            LET f == ToInteger(fractionDigits)
                fx == FixedDigits([k |-> "fin", n |-> AbsInt(x.n), d |-> x.d], f)
            IN  (IF x.n < 0 THEN <<"-">> ELSE <<>>)
                    \o ToString(fx.ip)
                    \o (IF f > 0 THEN <<".">> \o DigitText(fx.digits) ELSE <<>>)

\* App.jsx line 6, part_000 line 7; a mutant cuts the digits off instead of rounding
round_truncates(v, dp) ==
    IF NumberIsFinite(v)
    THEN LET u == Pow(10, ToInteger(dp))
         IN  IF v.n >= 0 THEN Fin((v.n * u) \div v.d, u) ELSE Fin(-((-v.n * u) \div v.d), u)
    ELSE Zero

round(v, dp) == IF NumberIsFinite(v) THEN Number(toFixed(v, dp)) ELSE Zero

Less(x, y) == x.n * y.d < y.n * x.d
MathMax(x, y) == IF x.k = "nan" \/ y.k = "nan" THEN NaN ELSE IF Less(x, y) THEN y ELSE x
MathMin(x, y) == IF x.k = "nan" \/ y.k = "nan" THEN NaN ELSE IF Less(y, x) THEN y ELSE x

\* App.jsx line 5, part_000 line 6 (finite bounds and a finite or NaN v)
clamp(v, min, max) == MathMin(MathMax(v, min), max)

---------------------------------------------------------------------------
(* Units and scales.                                                       *)

\* 25.4 mm to the inch
MmPerInch == Fin(254, 10)

METRIC_UNITS == <<"mm", "cm", "m">>
IMPERIAL_UNITS == <<"in", "ft">>

toMM(key, v) ==
    CASE key = "mm" -> v
      [] key = "cm" -> Mul(v, Fin(10, 1))
      [] key = "m" -> Mul(v, Fin(1000, 1))
      [] key = "in" -> Mul(v, MmPerInch)
      [] key = "ft" -> Mul(Mul(v, Fin(12, 1)), MmPerInch)

\* options counted from 0
ALL_SCALES_fromZero == 0 .. 71

ALL_SCALES == 1 .. 72

\* Number(e.target.value) of the option of a select whose value is the integer i
OptionValue(i) == Number(ToString(i))

---------------------------------------------------------------------------
(* The measurement converter: MeasurementConverter of App.jsx and          *)
(* ScaleConverter of part_000.                                             *)

unitList == IF system = "metric" THEN METRIC_UNITS ELSE IMPERIAL_UNITS
activeUnitKey == IF system = "metric" THEN metricUnit ELSE imperialUnit
activeUnit ==
    IF \E i \in 1 .. Len(unitList) : unitList[i] = activeUnitKey
    THEN activeUnitKey
    ELSE unitList[1]

\* App.jsx lines 108-113
MeasurementConverter_mmScaled ==
    LET num == Number(inputValue)
    IN  IF ~NumberIsFinite(num) THEN Zero
        ELSE Div(toMM(activeUnit, num), scaleN)

\* part_000 lines 67-73
ScaleConverter_mmScaled ==
    LET val == Number(StripCommas(inputValue))
        v == IF NumberIsFinite(val) THEN val ELSE Zero
        mmOrig == toMM(activeUnit, v)
    IN  Div(mmOrig, clamp(scaleN, Fin(1, 1), Fin(72, 1)))

mmScaled ==
    IF build = "App" THEN MeasurementConverter_mmScaled ELSE ScaleConverter_mmScaled

\* what the mm value is divided by: scaleN in App.jsx (line 112),
\* clamp(scaleN, 1, 72) in part_000 (line 71)
divisor ==
    IF build = "App" THEN scaleN ELSE clamp(scaleN, Fin(1, 1), Fin(72, 1))

metricOut ==
    [mm |-> round(mmScaled, decimals),
     cm |-> round(Div(mmScaled, Fin(10, 1)), decimals),
     m |-> round(Div(mmScaled, Fin(1000, 1)), decimals)]

imperialOut ==
    LET inches == Div(mmScaled, MmPerInch)
        feet == Div(inches, Fin(12, 1))
        frac == inchesToFraction(inches, inchDenom)
    IN  [in |-> round(inches, decimals), ft |-> round(feet, decimals), frac |-> frac]

---------------------------------------------------------------------------
(* The scale-to-scale converter, App.jsx lines 171-187.                    *)

Falsy(x) == x.k = "nan" \/ (x.k = "fin" /\ x.n = 0)

NumberValue(x) == [type |-> "number", num |-> x, text |-> <<>>]
StringValue(s) == [type |-> "string", num |-> Zero, text |-> s]

\* mutants of percent: the guard forgets toScale; the ratio is taken upside down
percent_guardsFromOnly ==
    IF Falsy(fromScale) THEN NumberValue(Zero)
    ELSE StringValue(toFixed(Mul(Div(fromScale, toScale), Fin(100, 1)), Fin(2, 1)))

percent_upsideDown ==
    IF Falsy(fromScale) \/ Falsy(toScale) THEN NumberValue(Zero)
    ELSE StringValue(toFixed(Mul(Div(toScale, fromScale), Fin(100, 1)), Fin(2, 1)))

\* App.jsx lines 175-178: the number 0, or the text of toFixed(2)
percent ==
    IF Falsy(fromScale) \/ Falsy(toScale) THEN NumberValue(Zero)
    ELSE StringValue(toFixed(Mul(Div(fromScale, toScale), Fin(100, 1)), Fin(2, 1)))

---------------------------------------------------------------------------
(* Initial state of the components.                                        *)

Grid == Pow(2, GridBits)
InchInputs ==
    {Fin(t, Grid) : t \in (-((MaxWhole + 1) * Grid - 1)) .. ((MaxWhole + 1) * Grid - 1)}
        \cup {NaN, PosInfinity, NegInfinity}

NoCall == [inches |-> Zero, denom |-> 16]
NotRendered ==
    [rendered |-> FALSE, mm |-> Zero, cm |-> Zero, m |-> Zero, in |-> Zero, ft |-> Zero,
     frac |-> NoFraction]
NotComputed == [type |-> "none", num |-> Zero, text |-> <<>>]

NoHarness ==
    /\ fracIn = NoCall
    /\ fracOut = NoFraction
    /\ shown = NotRendered
    /\ percentShown = NotComputed

\* the useState defaults, App.jsx lines 96-102 and part_000 lines 51-57
MeasureDefaults ==
    [system |-> "metric", metricUnit |-> "mm", imperialUnit |-> "in",
     inputValue |-> <<"1", "0", "0">>, scaleN |-> Fin(10, 1), inchDenom |-> 16,
     decimals |-> Fin(3, 1)]

MeasureInit ==
    /\ system = MeasureDefaults.system
    /\ metricUnit = MeasureDefaults.metricUnit
    /\ imperialUnit = MeasureDefaults.imperialUnit
    /\ inputValue = MeasureDefaults.inputValue
    /\ scaleN = MeasureDefaults.scaleN
    /\ inchDenom = MeasureDefaults.inchDenom
    /\ decimals = MeasureDefaults.decimals

\* App.jsx lines 172-173
ScaleInit ==
    /\ fromScale = Fin(14, 1)
    /\ toScale = Fin(18, 1)

Targets == {"mm", "inches", "percent"}

\* the delay of the setTimeout of toast, App.jsx line 45
TOAST_MS == 1200
TickMs == TOAST_MS \div TicksPerToast

NoToastEl == [exists |-> FALSE, textContent |-> "", opacity |-> ""]

\* no toast element yet, no timer, no clipboard write
ShellInit ==
    /\ tab = "measure"
    /\ toastEl = NoToastEl
    /\ timers = {}
    /\ shownFor = 0
    /\ pending = [t \in Targets |-> 0]
    /\ failed = {}

---------------------------------------------------------------------------
(* The theme, App.jsx lines 50-63 and part_000 lines 37-49.                *)

\* localStorage.getItem of a key that is not stored
Null == "(null)"
\* what the key "theme" may hold when the page is opened
StoredValues == {Null, "dark", "light", "auto"}
\* window.matchMedia?.("(prefers-color-scheme: dark)").matches: true, false, or
\* undefined where matchMedia does not exist
ColorSchemes == {"dark", "light", "unsupported"}

\* an initializer that does not look at the stored value
initialTheme_ignoresStorage(saved, media) ==
    IF media = "dark" THEN "dark" ELSE "light"

\* the initializer of useState: the stored value if it is a theme, else the
\* preference of the system if dark, else light
initialTheme(saved, media) ==
    IF saved = "dark" \/ saved = "light" THEN saved
    ELSE IF media = "dark" THEN "dark" ELSE "light"

\* the effect of [theme]: the class of the root element and setItem
themeEffect(t) ==
    /\ rootDark' = (t = "dark")
    /\ storage' = t

\* the state once the component has mounted with saved under the key and its
\* first effect has run
ThemeMounted(saved) ==
    /\ theme = initialTheme(saved, colorScheme)
    /\ rootDark = (theme = "dark")
    /\ storage = theme
    /\ startup = [saved |-> saved, theme |-> theme]

\* nothing stored, a light system
ThemeInit ==
    /\ colorScheme = "light"
    /\ ThemeMounted(Null)

---------------------------------------------------------------------------
(* The harness of inchesToFraction: a call with arguments drawn from the   *)
(* grid, then its return.                                                  *)

FractionInit ==
    /\ fracIn \in [inches : InchInputs, denom : Denominators]
    /\ fracOut = NoFraction
    /\ shown = NotRendered
    /\ percentShown = NotComputed
    /\ MeasureInit
    /\ ScaleInit
    /\ ShellInit
    /\ ThemeInit
    /\ build = "App"
    /\ hasClipboard = TRUE
    /\ fpAbove = FALSE

CallInchesToFraction ==
    /\ fracOut = NoFraction
    /\ fracOut' = inchesToFraction(fracIn.inches, fracIn.denom)
    /\ UNCHANGED <<fracIn, shown, percentShown, measureVars, scaleVars, tab, toastVars,
                   clipboardVars, envVars, themeVars>>

FractionNext == CallInchesToFraction

SpecFraction == FractionInit /\ [][FractionNext]_vars

---------------------------------------------------------------------------
(* The harness of the measurement conversion: inputs the handlers can set, *)
(* entered in the default unit (mm), then one render.                      *)

SeqsUpTo(A, n) == UNION {[1 .. k -> A] : k \in 0 .. n}

Alphabet == {"0", "5", ".", ",", "a"}
SampleTexts ==
    {<<>>, <<"1", "0", "0">>, <<"1", ",", "0", "0", "0">>, InfinityText,
     <<"-">> \o InfinityText, <<"-", "5">>, <<"1", ".", "5">>, <<"a", "b", "c">>,
     <<"5", "a">>}
InputTexts == SeqsUpTo(Alphabet, MaxLen) \cup SampleTexts

\* what a number field hands to its handler: a valid number text, or ""
DecimalsTexts ==
    {ToString(i) : i \in 0 .. 7} \cup {<<>>, <<"-", "1">>, <<"2", ".", "5">>}

LinearInit ==
    /\ system = "metric"
    /\ metricUnit = "mm"
    /\ imperialUnit = "in"
    /\ inputValue \in InputTexts
    /\ scaleN \in {OptionValue(n) : n \in ALL_SCALES}
    /\ inchDenom = 16
    /\ decimals \in {clamp(Number(t), Fin(0, 1), Fin(6, 1)) : t \in DecimalsTexts}
    /\ NoHarness
    /\ ScaleInit
    /\ ShellInit
    /\ ThemeInit
    /\ build \in {"App", "ScaleConverter"}
    /\ hasClipboard = TRUE
    /\ fpAbove \in BOOLEAN

\* one render: the memos mmScaled, metricOut and imperialOut
RenderMeasurement ==
    /\ ~shown.rendered
    /\ LET scaled == mmScaled
           inches == Div(scaled, MmPerInch)
       IN  shown' = [rendered |-> TRUE,
                     mm |-> round(scaled, decimals),
                     cm |-> round(Div(scaled, Fin(10, 1)), decimals),
                     m |-> round(Div(scaled, Fin(1000, 1)), decimals),
                     in |-> round(inches, decimals),
                     ft |-> round(Div(inches, Fin(12, 1)), decimals),
                     frac |-> inchesToFraction(inches, inchDenom)]
    /\ UNCHANGED <<fracIn, fracOut, percentShown, measureVars, scaleVars, tab, toastVars,
                   clipboardVars, envVars, themeVars>>

LinearNext == RenderMeasurement

SpecLinear == LinearInit /\ [][LinearNext]_vars

---------------------------------------------------------------------------
(* The harness of the percentage: two scales, among them the values the    *)
(* guard is for (0 and NaN), then one render.                              *)

ScaleInputs == {OptionValue(n) : n \in ALL_SCALES} \cup {Zero, NaN}

PercentInit ==
    /\ fromScale \in ScaleInputs
    /\ toScale \in ScaleInputs
    /\ NoHarness
    /\ MeasureInit
    /\ ShellInit
    /\ ThemeInit
    /\ build = "App"
    /\ hasClipboard = TRUE
    /\ fpAbove \in BOOLEAN

RenderPercent ==
    /\ percentShown = NotComputed
    /\ percentShown' = percent
    /\ UNCHANGED <<fracIn, fracOut, shown, measureVars, scaleVars, tab, toastVars,
                   clipboardVars, envVars, themeVars>>

PercentNext == RenderPercent

SpecPercent == PercentInit /\ [][PercentNext]_vars

---------------------------------------------------------------------------
(* The handlers of the inputs.                                             *)

MeasureMounted == build = "ScaleConverter" \/ tab = "measure"
ScaleMounted == build = "App" /\ tab = "scale2scale"

\* onChange of the value field: setInputValue(e.target.value)
SetInputValue(texts) ==
    /\ MeasureMounted
    /\ \E s \in texts : inputValue' = s
    /\ UNCHANGED <<harnessVars, system, metricUnit, imperialUnit, scaleN, inchDenom,
                   decimals, scaleVars, tab, toastVars, clipboardVars, envVars, themeVars>>

\* onClick of Metric / Imperial: setSystem
SetSystem ==
    /\ MeasureMounted
    /\ \E s \in {"metric", "imperial"} : system' = s
    /\ UNCHANGED <<harnessVars, metricUnit, imperialUnit, inputValue, scaleN, inchDenom,
                   decimals, scaleVars, tab, toastVars, clipboardVars, envVars, themeVars>>

\* onChange of the unit select: setMetricUnit or setImperialUnit, by the system
SetUnit ==
    /\ MeasureMounted
    /\ \E i \in 1 .. Len(unitList) :
          IF system = "metric"
          THEN metricUnit' = unitList[i] /\ UNCHANGED imperialUnit
          ELSE imperialUnit' = unitList[i] /\ UNCHANGED metricUnit
    /\ UNCHANGED <<harnessVars, system, inputValue, scaleN, inchDenom, decimals,
                   scaleVars, tab, toastVars, clipboardVars, envVars, themeVars>>

\* onChange of the scale select: setScaleN(Number(e.target.value))
SetScaleN(scales) ==
    /\ MeasureMounted
    /\ \E n \in scales : scaleN' = OptionValue(n)
    /\ UNCHANGED <<harnessVars, system, metricUnit, imperialUnit, inputValue, inchDenom,
                   decimals, scaleVars, tab, toastVars, clipboardVars, envVars, themeVars>>

\* onChange of the decimal places field:
\* setDecimals(clamp(Number(e.target.value), 0, 6))
SetDecimals(texts) ==
    /\ MeasureMounted
    /\ \E t \in texts : decimals' = clamp(Number(t), Fin(0, 1), Fin(6, 1))
    /\ UNCHANGED <<harnessVars, system, metricUnit, imperialUnit, inputValue, scaleN,
                   inchDenom, scaleVars, tab, toastVars, clipboardVars, envVars, themeVars>>

\* onChange of the fraction select, which only part_000 renders:
\* setInchDenom(Number(e.target.value))
SetInchDenom ==
    /\ build = "ScaleConverter"
    /\ \E d \in Denominators : inchDenom' = OptionValue(d).n
    /\ UNCHANGED <<harnessVars, system, metricUnit, imperialUnit, inputValue, scaleN,
                   decimals, scaleVars, tab, toastVars, clipboardVars, envVars, themeVars>>

\* onChange of the two selects of the scale-to-scale converter
SetFromScale(scales) ==
    /\ ScaleMounted
    /\ \E n \in scales : fromScale' = OptionValue(n)
    /\ UNCHANGED <<harnessVars, measureVars, toScale, tab, toastVars, clipboardVars,
                   envVars, themeVars>>

SetToScale(scales) ==
    /\ ScaleMounted
    /\ \E n \in scales : toScale' = OptionValue(n)
    /\ UNCHANGED <<harnessVars, measureVars, fromScale, tab, toastVars, clipboardVars,
                   envVars, themeVars>>

\* a change of tab that keeps both converters mounted
SetTab_keepsState ==
    /\ build = "App"
    /\ \E t \in {"measure", "scale2scale"} : tab' = t
    /\ UNCHANGED <<harnessVars, measureVars, scaleVars, toastVars, clipboardVars,
                   envVars, themeVars>>

\* onClick of a tab button: setTab. Line 86 renders one converter or the other, so
\* a change of tab unmounts one and mounts the other with its useState defaults.
SetTab ==
    /\ build = "App"
    /\ \E t \in {"measure", "scale2scale"} :
          /\ tab' = t
          /\ IF t = tab
             THEN UNCHANGED <<measureVars, scaleVars>>
             ELSE /\ system' = MeasureDefaults.system
                  /\ metricUnit' = MeasureDefaults.metricUnit
                  /\ imperialUnit' = MeasureDefaults.imperialUnit
                  /\ inputValue' = MeasureDefaults.inputValue
                  /\ scaleN' = MeasureDefaults.scaleN
                  /\ inchDenom' = MeasureDefaults.inchDenom
                  /\ decimals' = MeasureDefaults.decimals
                  /\ fromScale' = Fin(14, 1)
                  /\ toScale' = Fin(18, 1)
    /\ UNCHANGED <<harnessVars, toastVars, clipboardVars, envVars, themeVars>>

\* the scales the model selects in the machine of the inputs
ScaleSamples == {1, 10, 72}

InputsInit ==
    /\ NoHarness
    /\ MeasureInit
    /\ ScaleInit
    /\ ShellInit
    /\ ThemeInit
    /\ build \in {"App", "ScaleConverter"}
    /\ hasClipboard = TRUE
    /\ fpAbove \in BOOLEAN

InputsNext ==
    \/ SetInputValue(SampleTexts)
    \/ SetSystem
    \/ SetUnit
    \/ SetScaleN(ScaleSamples)
    \/ SetDecimals(DecimalsTexts)
    \/ SetInchDenom
    \/ SetFromScale(ScaleSamples)
    \/ SetToScale(ScaleSamples)
    \/ SetTab

SpecInputs == InputsInit /\ [][InputsNext]_vars

---------------------------------------------------------------------------
(* The scale select with every one of its options, among the other inputs  *)
(* of the measurement converter.                                           *)

ScaleTexts == {<<"5">>, <<"1", ",", "0", "0", "0">>, <<"a", "b", "c">>, InfinityText}
ScaleDecimalsTexts == {<<"0">>, <<"7">>}

ScaleSpecInit ==
    /\ NoHarness
    /\ MeasureInit
    /\ ScaleInit
    /\ ShellInit
    /\ ThemeInit
    /\ build \in {"App", "ScaleConverter"}
    /\ hasClipboard = TRUE
    /\ fpAbove = FALSE

ScaleNext ==
    \/ SetScaleN(ALL_SCALES)
    \/ SetInputValue(ScaleTexts)
    \/ SetSystem
    \/ SetUnit
    \/ SetDecimals(ScaleDecimalsTexts)
    \/ SetTab

SpecScale == ScaleSpecInit /\ [][ScaleNext]_vars

---------------------------------------------------------------------------
(* Copying to the clipboard and the toast, App.jsx lines 34-46, 128-131    *)
(* and 180-187.                                                            *)

MmCopied == "mm copied"
InchesCopied == "inches copied"
PercentCopied == "Copied percentage to clipboard"
CopyFailed == "Copy failed"

\* toast(msg): the element is created on first use, shows msg at opacity 1, and a
\* new timer is set; no earlier timer is cleared. Timers due at the same instant
\* are one element of the set: they do the same thing at the same time.
toast(msg) ==
    /\ toastEl' = [exists |-> TRUE, textContent |-> msg, opacity |-> "1"]
    /\ timers' = timers \cup {TOAST_MS}
    /\ shownFor' = 0

\* copy(val, label) of MeasurementConverter: writeText is called and not awaited,
\* then toast(`${label} copied`). Without navigator.clipboard the call throws and
\* the handler ends there.
copy(target, msg) ==
    /\ build = "App" /\ tab = "measure"
    /\ IF hasClipboard
       THEN /\ pending[target] < MaxPending
            /\ pending' = [pending EXCEPT ![target] = @ + 1]
            /\ toast(msg)
            /\ UNCHANGED failed
       ELSE /\ failed' = failed \cup {target}
            /\ UNCHANGED <<pending, toastVars>>
    /\ UNCHANGED <<harnessVars, measureVars, scaleVars, tab, envVars, themeVars>>

CopyMetric == copy("mm", MmCopied)
CopyImperial == copy("inches", InchesCopied)

\* copyPercent up to its await; without navigator.clipboard the call throws inside
\* the try and the catch toasts
copyPercent ==
    /\ build = "App" /\ tab = "scale2scale"
    /\ IF hasClipboard
       THEN /\ pending["percent"] < MaxPending
            /\ pending' = [pending EXCEPT !["percent"] = @ + 1]
            /\ UNCHANGED <<failed, toastVars>>
       ELSE /\ failed' = failed \cup {"percent"}
            /\ toast(CopyFailed)
            /\ UNCHANGED pending
    /\ UNCHANGED <<harnessVars, measureVars, scaleVars, tab, envVars, themeVars>>

\* the promise of a writeText is fulfilled: copyPercent resumes after its await;
\* nothing waits for the promise of copy
WriteResolves ==
    /\ \E t \in Targets :
          /\ pending[t] > 0
          /\ pending' = [pending EXCEPT ![t] = @ - 1]
          /\ IF t = "percent" THEN toast(PercentCopied) ELSE UNCHANGED toastVars
    /\ UNCHANGED <<harnessVars, measureVars, scaleVars, tab, failed, envVars, themeVars>>

\* the promise is rejected: copyPercent resumes in its catch; the rejection of the
\* promise of copy is handled nowhere
WriteRejects ==
    /\ \E t \in Targets :
          /\ pending[t] > 0
          /\ pending' = [pending EXCEPT ![t] = @ - 1]
          /\ failed' = failed \cup {t}
          /\ IF t = "percent" THEN toast(CopyFailed) ELSE UNCHANGED toastVars
    /\ UNCHANGED <<harnessVars, measureVars, scaleVars, tab, envVars, themeVars>>

\* a timer of toast is due: el.style.opacity = "0"
TimerFires ==
    /\ 0 \in timers
    /\ timers' = timers \ {0}
    /\ toastEl' = [toastEl EXCEPT !.opacity = "0"]
    /\ UNCHANGED <<harnessVars, measureVars, scaleVars, tab, shownFor, clipboardVars,
                   envVars, themeVars>>

\* TickMs pass; a timer that is due fires first
Tick ==
    /\ timers # {}
    /\ 0 \notin timers
    /\ timers' = {t - TickMs : t \in timers}
    /\ shownFor' = IF shownFor + TickMs > TOAST_MS THEN TOAST_MS ELSE shownFor + TickMs
    /\ UNCHANGED <<harnessVars, measureVars, scaleVars, tab, toastEl, clipboardVars,
                   envVars, themeVars>>

Init ==
    /\ NoHarness
    /\ MeasureInit
    /\ ScaleInit
    /\ ShellInit
    /\ ThemeInit
    /\ build = "App"
    /\ hasClipboard \in BOOLEAN
    /\ fpAbove = FALSE

Next ==
    \/ SetTab
    \/ CopyMetric
    \/ CopyImperial
    \/ copyPercent
    \/ WriteResolves
    \/ WriteRejects
    \/ TimerFires
    \/ Tick

Spec == Init /\ [][Next]_vars

---------------------------------------------------------------------------
(* The theme button and the reopening of the page, with the tabs, an       *)
(* input of each converter and the copy buttons beside them.               *)

\* onClick of the theme button: setTheme(theme === "dark" ? "light" : "dark"),
\* then the effect of [theme]
ToggleTheme ==
    /\ theme' = (IF theme = "dark" THEN "light" ELSE "dark")
    /\ themeEffect(theme')
    /\ UNCHANGED <<harnessVars, measureVars, scaleVars, tab, toastVars, clipboardVars,
                   envVars, startup, colorScheme>>

\* the page is closed and opened again: the components mount with their useState
\* defaults, theme with its initializer reading localStorage, and the effect
\* runs; the document is new (no toast element, no timer, no promise), and the
\* preference of the system may have changed meanwhile
Restart ==
    /\ \E media \in ColorSchemes :
          /\ colorScheme' = media
          /\ theme' = initialTheme(storage, media)
    /\ themeEffect(theme')
    /\ startup' = [saved |-> storage, theme |-> theme']
    /\ tab' = "measure"
    /\ system' = MeasureDefaults.system
    /\ metricUnit' = MeasureDefaults.metricUnit
    /\ imperialUnit' = MeasureDefaults.imperialUnit
    /\ inputValue' = MeasureDefaults.inputValue
    /\ scaleN' = MeasureDefaults.scaleN
    /\ inchDenom' = MeasureDefaults.inchDenom
    /\ decimals' = MeasureDefaults.decimals
    /\ fromScale' = Fin(14, 1)
    /\ toScale' = Fin(18, 1)
    /\ toastEl' = NoToastEl
    /\ timers' = {}
    /\ shownFor' = 0
    /\ pending' = [t \in Targets |-> 0]
    /\ failed' = {}
    /\ UNCHANGED <<harnessVars, envVars>>

\* The clock of the toasts is left out of this machine: a timer of toast only
\* sets the opacity of the element.

\* the text typed and the scale selected in the machine of the theme
ThemeTexts == {<<"5">>}
ThemeScales == {72}

ThemeSpecInit ==
    /\ NoHarness
    /\ MeasureInit
    /\ ScaleInit
    /\ ShellInit
    /\ colorScheme \in ColorSchemes
    /\ \E saved \in StoredValues : ThemeMounted(saved)
    /\ build \in {"App", "ScaleConverter"}
    /\ hasClipboard \in BOOLEAN
    /\ fpAbove = FALSE

ThemeNext ==
    \/ ToggleTheme
    \/ Restart
    \/ SetTab
    \/ SetInputValue(ThemeTexts)
    \/ SetFromScale(ThemeScales)
    \/ CopyMetric
    \/ CopyImperial
    \/ copyPercent
    \/ WriteResolves
    \/ WriteRejects

SpecTheme == ThemeSpecInit /\ [][ThemeNext]_vars

---------------------------------------------------------------------------
(* The tabs of App.jsx with the inputs of both converters and the theme    *)
(* button.                                                                 *)

TabsInit ==
    /\ NoHarness
    /\ MeasureInit
    /\ ScaleInit
    /\ ShellInit
    /\ ThemeInit
    /\ build = "App"
    /\ hasClipboard = TRUE
    /\ fpAbove = FALSE

TabsNext ==
    \/ SetTab
    \/ ToggleTheme
    \/ SetInputValue(ThemeTexts)
    \/ SetSystem
    \/ SetUnit
    \/ SetScaleN(ScaleSamples)
    \/ SetDecimals(ScaleDecimalsTexts)
    \/ SetFromScale(ScaleSamples)
    \/ SetToScale(ScaleSamples)

SpecTabs == TabsInit /\ [][TabsNext]_vars

---------------------------------------------------------------------------
(* Claims about inchesToFraction (SpecFraction).                           *)

Returned == fracOut # NoFraction

\* |inches| of the call
AbsIn == Fin(AbsInt(fracIn.inches.n), fracIn.inches.d)

\* C1: for every finite inch value and every denominator d of the select, the
\* returned numerator n and denominator d' satisfy 0 <= n < d' and n < d, n/d' is
\* in lowest terms whenever n # 0, and whole is a non-negative integer.
C1_FractionProper ==
    (Returned /\ NumberIsFinite(fracIn.inches)) =>
        /\ 0 <= fracOut.num
        /\ fracOut.num < fracOut.denom
        /\ fracOut.num < fracIn.denom
        /\ fracOut.whole \in Nat
        /\ (fracOut.num # 0 =>
               \A c \in 2 .. fracOut.denom :
                   ~(fracOut.num % c = 0 /\ fracOut.denom % c = 0))

\* a call with a negative value that returned a fraction which had to be reduced
\* (8/16 to 1/2)
C1_Witness ==
    /\ Returned
    /\ NumberIsFinite(fracIn.inches)
    /\ fracIn.inches.n < 0
    /\ fracIn.denom = 16
    /\ fracOut.num = 1
    /\ fracOut.denom = 2

\* C2: whole + num/denom is |x| rounded to the nearest multiple of 1/d, a tie
\* going up; when the remainder rounds to a full unit the result is
\* floor(|x|) + 1 with numerator 0.
C2_NearestMultiple ==
    (Returned /\ NumberIsFinite(fracIn.inches)) =>
        LET d == fracIn.denom
            \* the number of 1/d steps nearest to |x|, a tie going up
            steps == (2 * AbsIn.n * d + AbsIn.d) \div (2 * AbsIn.d)
            floorAbs == AbsIn.n \div AbsIn.d
        IN  /\ (fracOut.whole * fracOut.denom + fracOut.num) * d = steps * fracOut.denom
            /\ (steps = (floorAbs + 1) * d) =>
                   /\ fracOut.whole = floorAbs + 1
                   /\ fracOut.num = 0

\* 1.96875 at d = 16: 31.5 sixteenths round up to 32, carried to whole 2
C2_Witness ==
    /\ Returned
    /\ fracIn.inches = Fin(63, 32)
    /\ fracIn.denom = 16
    /\ fracOut.whole = 2
    /\ fracOut.num = 0

\* C3: whenever the returned numerator is 0 the returned denominator is the
\* requested one.
C3_ZeroKeepsDenominator ==
    Returned => (fracOut.num = 0 => fracOut.denom = fracIn.denom)

---------------------------------------------------------------------------
(* Claims about the percentage (SpecPercent).                              *)

Computed == percentShown # NotComputed

\* C4: for fromScale and toScale in 1..72 the percentage is
\* (fromScale / toScale) * 100 rounded to 2 decimals (a tie going up), written
\* with two decimals: 100.00 for equal scales, 77.78 for (14, 18).
C4_PercentIsRatioRounded ==
    (/\ Computed
     /\ NumberIsFinite(fromScale) /\ fromScale.d = 1 /\ fromScale.n \in 1 .. 72
     /\ NumberIsFinite(toScale) /\ toScale.d = 1 /\ toScale.n \in 1 .. 72) =>
        LET f == fromScale.n
            t == toScale.n
            hundredths == (2 * f * 10000 + t) \div (2 * t)
            text == percentShown.text
        IN  /\ percentShown.type = "string"
            /\ Len(text) >= 4
            /\ text[Len(text) - 2] = "."
            /\ Number(text) = Fin(hundredths, 100)
            /\ (f = t => text = <<"1", "0", "0", ".", "0", "0">>)
            /\ (f = 14 /\ t = 18 => text = <<"7", "7", ".", "7", "8">>)

\* (14, 18) renders 77.78
C4_Witness ==
    /\ Computed
    /\ fromScale = Fin(14, 1)
    /\ toScale = Fin(18, 1)
    /\ percentShown.type = "string"
    /\ percentShown.text = <<"7", "7", ".", "7", "8">>

\* C5: if fromScale or toScale is zero (or NaN) the percentage is the number 0:
\* no quotient is formatted, neither "Infinity" nor "NaN" is shown.
C5_ZeroScaleGivesZero ==
    (Computed /\ (fromScale \in {Zero, NaN} \/ toScale \in {Zero, NaN})) =>
        /\ percentShown.type = "number"
        /\ percentShown.num = Zero

\* (14, 0) renders 0
C5_Witness ==
    /\ Computed
    /\ fromScale = Fin(14, 1)
    /\ toScale = Zero
    /\ percentShown.type = "number"
    /\ percentShown.num = Zero

---------------------------------------------------------------------------
(* Claims about the measurement converter (SpecLinear, SpecInputs).        *)

EnteredInMM == system = "metric" /\ metricUnit = "mm"

\* m is xn/xd rounded to dp decimals: a multiple of 10^-dp as close to xn/xd as
\* any (on a decimal tie, either neighbour)
IsRounded(m, xn, xd, dp) ==
    LET u == Pow(10, dp)
        N == m.n * (u \div m.d)
        hi == (2 * u * xn + xd) \div (2 * xd)
        lo == -((xd - 2 * u * xn) \div (2 * xd))
    IN  /\ NumberIsFinite(m)
        /\ u % m.d = 0
        /\ N \in lo .. hi

C7_CommasAreStripped ==
    LET spelt == Number(StripCommas(inputValue))
    IN  (/\ shown.rendered
         /\ \E i \in 1 .. Len(inputValue) : inputValue[i] = ","
         /\ NumberIsFinite(spelt)) =>
            shown.mm = round(Div(toMM(activeUnit, spelt), scaleN), decimals)

\* a text that spells no number: without a digit (the empty text too), with a
\* character no number has, or with two decimal points
NotANumber(text) ==
    \/ \A i \in 1 .. Len(text) : text[i] \notin DigitSet
    \/ \E i \in 1 .. Len(text) : text[i] \notin (DigitSet \cup {".", ",", "-", "+"})
    \/ \E i, j \in 1 .. Len(text) : i < j /\ text[i] = "." /\ text[j] = "."

\* C8: for every input text that is not a finite number (non-numeric text, empty
\* field, infinite value) every output is zero: mm, cm, m, in and ft are 0 and the
\* fraction has whole 0 and numerator 0.
C8_InvalidInputShowsZero ==
    (MeasureMounted /\ NotANumber(inputValue)) =>
        /\ metricOut = [mm |-> Zero, cm |-> Zero, m |-> Zero]
        /\ imperialOut.in = Zero
        /\ imperialOut.ft = Zero
        /\ imperialOut.frac.whole = 0
        /\ imperialOut.frac.num = 0

\* "abc" entered in feet at 1:72
C8_Witness ==
    /\ inputValue = <<"a", "b", "c">>
    /\ system = "imperial"
    /\ imperialUnit = "ft"
    /\ scaleN = Fin(72, 1)
    /\ metricOut.mm = Zero
    /\ imperialOut.frac.whole = 0

---------------------------------------------------------------------------
(* Claims about copying and the toast (Spec).                              *)

SuccessOf == [t \in Targets |->
                 IF t = "mm" THEN MmCopied
                 ELSE IF t = "inches" THEN InchesCopied ELSE PercentCopied]

\* C9: whenever a clipboard write fails, for every copy target, the failure message
\* is shown and not the success confirmation; the success confirmation is put up
\* only by a write that succeeded.
C9_FailedWriteShowsFailure ==
    [][\A t \in Targets :
          /\ (t \notin failed /\ t \in failed') =>
                 /\ toastEl'.exists
                 /\ toastEl'.textContent = CopyFailed
                 /\ toastEl'.opacity = "1"
          /\ (toastEl' # toastEl /\ toastEl'.textContent = SuccessOf[t]
                  /\ toastEl'.opacity = "1") =>
                 /\ pending'[t] < pending[t]
                 /\ t \notin failed']_vars

\* C10: every message of the toast stays visible for TOAST_MS from the moment it
\* was displayed and is then hidden, also when copies follow each other within
\* TOAST_MS: the toast is hidden only when its message has been on for TOAST_MS,
\* and is not on for longer.
C10_ToastStaysForDelay ==
    toastEl.exists =>
        /\ toastEl.opacity = "0" => shownFor = TOAST_MS
        /\ toastEl.opacity = "1" => (shownFor < TOAST_MS \/ 0 \in timers)


---------------------------------------------------------------------------
(* Claims about the theme (SpecTheme).                                     *)

\* C11: after any sequence of theme toggles the value stored under the key "theme"
\* is the theme in use, so that the page reopens in the last chosen theme; a page
\* opened with no valid stored value starts in the preference of the system if
\* that is dark, otherwise in light; and no operation other than a change of
\* theme (tab switch, input change, copy, reopening) changes what is stored.
C11_ThemeIsPersisted ==
    /\ [](storage = theme)
    /\ [](startup.saved \notin {"dark", "light"} =>
             startup.theme = (IF colorScheme = "dark" THEN "dark" ELSE "light"))
    /\ [][Restart => theme' = theme]_vars
    /\ [][storage' # storage => ToggleTheme]_vars

\* a page reopened in dark on a system that reports no preference, since toggled
\* to light, with a copy made in the scale-to-scale tab
C11_Witness ==
    /\ startup = [saved |-> "dark", theme |-> "dark"]
    /\ colorScheme = "unsupported"
    /\ theme = "light"
    /\ storage = "light"
    /\ tab = "scale2scale"
    /\ pending["percent"] > 0

---------------------------------------------------------------------------
(* Claims about the divisor (SpecScale).                                   *)

\* C12: in every reachable state of the measurement converter, whatever scales
\* were selected and whatever else was entered, the mm value is divided by an
\* integer of 1..72, never by 0, and the scaled value is finite.
C12_DivisorInRange ==
    MeasureMounted =>
        /\ NumberIsFinite(divisor)
        /\ divisor.d = 1
        /\ divisor.n \in 1 .. 72
        /\ NumberIsFinite(mmScaled)

\* 5 ft at 1:72 in App.jsx, after decimals were set: 1524 mm / 72
C12_Witness ==
    /\ build = "App"
    /\ tab = "measure"
    /\ inputValue = <<"5">>
    /\ system = "imperial"
    /\ imperialUnit = "ft"
    /\ decimals = Fin(6, 1)
    /\ divisor = Fin(72, 1)
    /\ mmScaled = Fin(127, 6)

---------------------------------------------------------------------------
(* Claims about the tabs (SpecTabs).                                       *)

\* C13: the inputs belong to the component of the tab, so a switch to the other tab
\* discards them: the measurement converter comes up with its defaults (value
\* "100", metric, mm, 1:10, 3 decimals), the scale-to-scale converter with 14 and
\* 18; the theme and the stored theme are not changed by a switch of tab.
C13_TabSwitchResetsInputs ==
    [][tab' # tab =>
          /\ tab' = "measure" =>
                /\ inputValue' = <<"1", "0", "0">>
                /\ system' = "metric"
                /\ metricUnit' = "mm"
                /\ imperialUnit' = "in"
                /\ scaleN' = Fin(10, 1)
                /\ decimals' = Fin(3, 1)
          /\ tab' = "scale2scale" =>
                /\ fromScale' = Fin(14, 1)
                /\ toScale' = Fin(18, 1)
          /\ theme' = theme
          /\ storage' = storage]_vars

\* the scale-to-scale tab just opened, in the dark theme
C13_Witness ==
    /\ tab = "scale2scale"
    /\ fromScale = Fin(14, 1)
    /\ toScale = Fin(18, 1)
    /\ theme = "dark"
    /\ storage = "dark"

===========================================================================
